---------------------------- MODULE Spec2Model ----------------------------
(***************************************************************************)
(* GF(2^8) field elements (ff.py, class GF256int) and polynomials over a   *)
(* coefficient ring (polynomial.py, class Polynomial).                     *)
(*                                                                         *)
(* A field element is modelled by its integer value; the flyweight cache   *)
(* GF256int.cache and the identity of the cached instances are modelled in *)
(* the cache specification.  A polynomial is modelled by its coefficients  *)
(* tuple, highest power first.  The coefficient ring of a polynomial is    *)
(* "GF" (GF256int coefficients) or "Int" (plain Python integers).          *)
(***************************************************************************)
EXTENDS Integers, Sequences, FiniteSets

VARIABLES
    cache,   \* GF256int.cache: value -> index of the instance in heap
    heap,    \* the GF256int instances allocated so far (heap[i] = int value)
    self,    \* first operand of the operation under test
    other,   \* second operand (b, other, divisor)
    x,       \* evaluation point of Polynomial.evaluate
    ring,    \* coefficient type of the operands: "GF" (GF256int) or "Int"
    ret,     \* outcome of the last operation
    pc       \* position of the caller

vars == <<cache, heap, self, other, x, ring, ret, pc>>

---------------------------------------------------------------------------
(* ff.py: tables and field arithmetic                                      *)

\* logtable[0] is None in the source; None compares unequal to every int.
None == -1

exptable ==
    <<
       1, 3, 5, 15, 17, 51, 85, 255, 26, 46, 114, 150, 161, 248, 19, 53,
       95, 225, 56, 72, 216, 115, 149, 164, 247, 2, 6, 10, 30, 34, 102, 170,
       229, 52, 92, 228, 55, 89, 235, 38, 106, 190, 217, 112, 144, 171, 230, 49,
       83, 245, 4, 12, 20, 60, 68, 204, 79, 209, 104, 184, 211, 110, 178, 205,
       76, 212, 103, 169, 224, 59, 77, 215, 98, 166, 241, 8, 24, 40, 120, 136,
       131, 158, 185, 208, 107, 189, 220, 127, 129, 152, 179, 206, 73, 219, 118, 154,
       181, 196, 87, 249, 16, 48, 80, 240, 11, 29, 39, 105, 187, 214, 97, 163,
       254, 25, 43, 125, 135, 146, 173, 236, 47, 113, 147, 174, 233, 32, 96, 160,
       251, 22, 58, 78, 210, 109, 183, 194, 93, 231, 50, 86, 250, 21, 63, 65,
       195, 94, 226, 61, 71, 201, 64, 192, 91, 237, 44, 116, 156, 191, 218, 117,
       159, 186, 213, 100, 172, 239, 42, 126, 130, 157, 188, 223, 122, 142, 137, 128,
       155, 182, 193, 88, 232, 35, 101, 175, 234, 37, 111, 177, 200, 67, 197, 84,
       252, 31, 33, 99, 165, 244, 7, 9, 27, 45, 119, 153, 176, 203, 70, 202,
       69, 207, 74, 222, 121, 139, 134, 145, 168, 227, 62, 66, 198, 81, 243, 14,
       18, 54, 90, 238, 41, 123, 141, 140, 143, 138, 133, 148, 167, 242, 13, 23,
       57, 75, 221, 124, 132, 151, 162, 253, 28, 36, 108, 180, 199, 82, 246, 1
    >>

logtable ==
    <<
       None, 0, 25, 1, 50, 2, 26, 198, 75, 199, 27, 104, 51, 238, 223, 3,
       100, 4, 224, 14, 52, 141, 129, 239, 76, 113, 8, 200, 248, 105, 28, 193,
       125, 194, 29, 181, 249, 185, 39, 106, 77, 228, 166, 114, 154, 201, 9, 120,
       101, 47, 138, 5, 33, 15, 225, 36, 18, 240, 130, 69, 53, 147, 218, 142,
       150, 143, 219, 189, 54, 208, 206, 148, 19, 92, 210, 241, 64, 70, 131, 56,
       102, 221, 253, 48, 191, 6, 139, 98, 179, 37, 226, 152, 34, 136, 145, 16,
       126, 110, 72, 195, 163, 182, 30, 66, 58, 107, 40, 84, 250, 133, 61, 186,
       43, 121, 10, 21, 155, 159, 94, 202, 78, 212, 172, 229, 243, 115, 167, 87,
       175, 88, 168, 80, 244, 234, 214, 116, 79, 174, 233, 213, 231, 230, 173, 232,
       44, 215, 117, 122, 235, 22, 11, 245, 89, 203, 95, 176, 156, 169, 81, 160,
       127, 12, 246, 111, 23, 196, 73, 236, 216, 67, 31, 45, 164, 118, 123, 183,
       204, 187, 62, 90, 251, 96, 177, 134, 59, 82, 161, 108, 170, 85, 41, 157,
       151, 178, 135, 144, 97, 190, 220, 252, 188, 149, 207, 205, 55, 63, 91, 209,
       83, 57, 132, 60, 65, 162, 109, 71, 20, 42, 158, 93, 86, 242, 211, 171,
       68, 17, 146, 217, 35, 32, 46, 137, 180, 124, 184, 38, 119, 153, 227, 165,
       103, 74, 237, 222, 197, 49, 254, 24, 13, 99, 140, 128, 192, 247, 112, 7
    >>

Exp(i) == exptable[i + 1]
Log(a) == logtable[a + 1]

\* Python's int ^ int on non-negative operands.
RECURSIVE BitXor(_, _)
BitXor(a, b) ==
    IF a = 0 THEN b
    ELSE IF b = 0 THEN a
    ELSE (((a % 2) + (b % 2)) % 2) + 2 * BitXor(a \div 2, b \div 2)

\* GF256int.__add__ (also __sub__, __radd__, __rsub__): GF256int(self ^ b).
GFadd(a, b) == BitXor(a, b)

\* GF256int.__neg__
GFneg(a) == a

\* GF256int.__mul__ with the exponents reduced modulo 256 instead of 255.
GFmul_Mod256(a, b) ==
    IF a = 0 \/ b = 0 THEN 0
    ELSE Exp((Log(a) + Log(b)) % 256)

\* GF256int.__mul__ (also __rmul__)
GFmul(a, b) ==
    IF a = 0 \/ b = 0 THEN 0
    ELSE LET xl == Log(a)
             yl == Log(b)
             z  == (xl + yl) % 255
         IN  Exp(z)

\* The reduction constant 0x11b of GF256int.multiply.
ReductionConstant == 283

\* The while loop of GF256int.multiply.
RECURSIVE PeasantLoop(_, _, _)
PeasantLoop(p, b, r) ==
    IF b = 0 THEN r
    ELSE LET r1 == IF b % 2 = 1 THEN BitXor(r, p) ELSE r
             b1 == b \div 2
             p1 == p * 2
             p2 == IF (p1 \div 256) % 2 = 1 THEN BitXor(p1, ReductionConstant) ELSE p1
         IN  PeasantLoop(p2, b1, r1)

\* GF256int.__pow__ with a plain-integer power >= 0; logtable[0] is None and
\* None * power raises TypeError.
GFpow(a, power) ==
    LET xl == Log(a)
    IN  IF xl = None THEN [raised |-> "TypeError"]
        ELSE [raised |-> "none", value |-> Exp((xl * power) % 255)]

\* GF256int.multiply
GFmultiply(a, b) == PeasantLoop(a, b, 0)

\* "self not in GF256int.logtable": a search of the table's entries.
NotInLogtable(a) == \A k \in 1..Len(logtable) : logtable[k] # a

\* The brute-force search of GF256int.inverse.
FallbackHits(a) == {i \in 1..255 : GFmul(a, i) % 256 = 1}
Least(S) == CHOOSE m \in S : \A n \in S : m <= n

\* GF256int.inverse with the table index off by one (exptable[254 - e]).
GFinverse_OffByOne(a) ==
    IF a = 0 THEN [raised |-> "ZeroDivisionError", path |-> "zero"]
    ELSE IF a = 255 THEN [raised |-> "none", value |-> Exp(255 - 7), path |-> "patch255"]
    ELSE [raised |-> "none", value |-> Exp(254 - Log(a)), path |-> "table"]

\* GF256int.inverse: the exception raised ("none" when it returns), the value
\* returned and the branch that produced it.
GFinverse(a) ==
    IF a = 0 THEN [raised |-> "ZeroDivisionError", path |-> "zero"]
    ELSE IF a = 255 THEN [raised |-> "none", value |-> Exp(255 - 7), path |-> "patch255"]
    ELSE IF NotInLogtable(a) THEN
        IF FallbackHits(a) # {}
        THEN [raised |-> "none", value |-> Least(FallbackHits(a)), path |-> "fallback"]
        ELSE [raised |-> "ValueError", path |-> "fallback"]
    ELSE LET e == Log(a)
         IN  IF e = None THEN [raised |-> "ValueError", path |-> "nolog"]
             ELSE [raised |-> "none", value |-> Exp(255 - e), path |-> "table"]

---------------------------------------------------------------------------
(* polynomial.py: coefficient arithmetic                                   *)

Abs(n) == IF n < 0 THEN -n ELSE n

\* Integer division rounding toward zero.
TruncDiv(a, b) ==
    IF (a < 0) = (b < 0) \/ a = 0
    THEN Abs(a) \div Abs(b)
    ELSE -(Abs(a) \div Abs(b))

\* Python's int // int (b # 0): the quotient rounded toward minus infinity.
PyFloorDiv(a, b) ==
    IF (a < 0) = (b < 0) \/ a = 0
    THEN Abs(a) \div Abs(b)
    ELSE IF Abs(a) % Abs(b) = 0
         THEN -(Abs(a) \div Abs(b))
         ELSE -(Abs(a) \div Abs(b)) - 1

\* x + y, -x, x - y and x * y on coefficients.  A plain 0 met by a GF256int
\* goes through the reflected operators (__radd__, __rsub__, __rmul__), which
\* are the same functions.
CoefAdd(R, a, b) == IF R = "GF" THEN GFadd(a, b) ELSE a + b
CoefNeg(R, a) == IF R = "GF" THEN GFneg(a) ELSE -a
CoefSub(R, a, b) == IF R = "GF" THEN GFadd(a, b) ELSE a - b
CoefMul(R, a, b) == IF R = "GF" THEN GFmul(a, b) ELSE a * b

---------------------------------------------------------------------------
(* polynomial.py: class Polynomial                                         *)

Reverse(s) == [i \in 1..Len(s) |-> s[Len(s) + 1 - i]]
Zeros(n) == [i \in 1..n |-> 0]

\* "while c and c[0] == 0: c.pop(0)"
RECURSIVE Expunge(_)
Expunge(c) == IF c # <<>> /\ c[1] = 0 THEN Expunge(Tail(c)) ELSE c

\* "while len(c) > 1 and c[0] == 0: c.pop(0)"
RECURSIVE PopLeadingZeros(_)
PopLeadingZeros(c) ==
    IF Len(c) > 1 /\ c[1] = 0 THEN PopLeadingZeros(Tail(c)) ELSE c

\* Polynomial(coefficients): the dense branch, and Polynomial() when the
\* sequence is empty.
Polynomial(coefficients) ==
    IF coefficients # <<>>
    THEN LET c == Expunge(coefficients)
         IN  IF c = <<>> THEN <<0>> ELSE c
    ELSE <<0>>

\* str(power): the decimal digits of a keyword "x<power>" after its "x".
RECURSIVE Digits(_)
Digits(n) == IF n < 10 THEN <<n>> ELSE Append(Digits(n \div 10), n % 10)

\* int(power[1:]) on a string of decimal digits.
RECURSIVE ParseInt(_)
ParseInt(ds) ==
    IF Len(ds) = 1 THEN ds[1]
    ELSE 10 * ParseInt(SubSeq(ds, 1, Len(ds) - 1)) + ds[Len(ds)]

\* Python's s < t on two keywords: character by character, a proper prefix
\* first.  Every keyword starts with "x", so the digits decide.
RECURSIVE StrLess(_, _)
StrLess(s, t) ==
    IF t = <<>> THEN FALSE
    ELSE IF s = <<>> THEN TRUE
    ELSE IF s[1] # t[1] THEN s[1] < t[1]
    ELSE StrLess(Tail(s), Tail(t))

\* sorted(sparse.keys(), reverse=True)[0]
FirstSortedReverse(kwargs) ==
    LET keys == {kwargs[i].key : i \in 1..Len(kwargs)}
    IN  CHOOSE k \in keys : \A k2 \in keys : ~StrLess(k, k2)

\* list[idx] = v: a negative idx counts from the end, IndexError outside.
ListSet(list, idx, v) ==
    IF idx >= 0 /\ idx < Len(list)
    THEN [raised |-> "none", list |-> [list EXCEPT ![idx + 1] = v]]
    ELSE IF idx < 0 /\ idx + Len(list) >= 0
    THEN [raised |-> "none", list |-> [list EXCEPT ![idx + Len(list) + 1] = v]]
    ELSE [raised |-> "IndexError"]

\* "for power, coeff in sparse.items(): coefficients[highest - power] = coeff",
\* in the order the keywords were given.
RECURSIVE SparseLoop(_, _, _, _)
SparseLoop(coefficients, kwargs, i, highest) ==
    IF i > Len(kwargs) THEN [raised |-> "none", coefficients |-> coefficients]
    ELSE LET power == ParseInt(kwargs[i].key)
             set == ListSet(coefficients, highest - power, kwargs[i].coeff)
         IN  IF set.raised # "none" THEN [raised |-> set.raised]
             ELSE SparseLoop(set.list, kwargs, i + 1, highest)

\* Polynomial.__init__(coefficients, **sparse): the exception raised ("none"
\* when it returns) and self.coefficients.
PolynomialInit(coefficients, kwargs) ==
    IF coefficients # <<>> /\ kwargs # <<>> THEN [raised |-> "TypeError"]
    ELSE IF coefficients # <<>>
    THEN [raised |-> "none", coefficients |-> Polynomial(coefficients)]
    ELSE IF kwargs # <<>>
    THEN LET highest == ParseInt(FirstSortedReverse(kwargs))
         IN  SparseLoop(Zeros(highest + 1), kwargs, 1, highest)
    ELSE [raised |-> "none", coefficients |-> <<0>>]

\* Polynomial.degree
Degree(p) == Len(p) - 1

\* Polynomial.__eq__
PolyEq(p, q) == p = q

\* Polynomial.__add__
PolyAdd(R, p, q) ==
    LET diff == Len(p) - Len(q)
        t1 == IF diff > 0 THEN p ELSE Zeros(-diff) \o p
        t2 == IF diff > 0 THEN Zeros(diff) \o q ELSE q
    IN  Polynomial([i \in 1..Len(t1) |-> CoefAdd(R, t1[i], t2[i])])

\* Polynomial.__neg__
PolyNeg(R, p) == Polynomial([i \in 1..Len(p) |-> CoefNeg(R, p[i])])

\* Polynomial.__sub__
PolySub(R, p, q) == PolyAdd(R, p, PolyNeg(R, q))

\* The inner loop of __mul__: terms[i1+i2] += c1*c2 for i2 from 0.
RECURSIVE MulInner(_, _, _, _, _, _)
MulInner(R, terms, c1, i1, ro, i2) ==
    IF i2 >= Len(ro) THEN terms
    ELSE MulInner(R,
                  [terms EXCEPT ![i1 + i2 + 1] =
                       CoefAdd(R, @, CoefMul(R, c1, ro[i2 + 1]))],
                  c1, i1, ro, i2 + 1)

\* The outer loop of __mul__ over reversed(self.coefficients).
RECURSIVE MulOuter(_, _, _, _, _)
MulOuter(R, terms, rs, ro, i1) ==
    IF i1 >= Len(rs) THEN terms
    ELSE MulOuter(R,
                  IF rs[i1 + 1] = 0 THEN terms
                  ELSE MulInner(R, terms, rs[i1 + 1], i1, ro, 0),
                  rs, ro, i1 + 1)

\* Polynomial.__mul__
PolyMul(R, p, q) ==
    Polynomial(Reverse(MulOuter(R, Zeros(Len(p) + Len(q)), Reverse(p), Reverse(q), 0)))

\* The quotient coefficient without the multiplication by the inverse.
QuotientCoeff_NoInverse(R, c, lc) ==
    IF R = "GF" THEN [raised |-> "none", value |-> c]
    ELSE IF lc = 0 THEN [raised |-> "ZeroDivisionError"]
         ELSE [raised |-> "none", value |-> PyFloorDiv(c, lc)]

\* The quotient coefficient of one step of __divmod__: remainder_coeffs[i]
\* divided by the divisor's leading coefficient.
QuotientCoeff(R, c, lc) ==
    IF R = "GF"
    THEN IF lc # 1
         THEN LET inv == GFinverse(lc)
              IN  IF inv.raised = "none"
                  THEN [raised |-> "none", value |-> GFmul(c, inv.value)]
                  ELSE [raised |-> inv.raised]
         ELSE [raised |-> "none", value |-> c]
    ELSE IF lc = 0 THEN [raised |-> "ZeroDivisionError"]
         ELSE [raised |-> "none", value |-> PyFloorDiv(c, lc)]

\* The inner loop of __divmod__ adding the factor ("+=" for "-=").
RECURSIVE DivInner_Adds(_, _, _, _, _, _)
DivInner_Adds(R, rem, qi, d, i, j) ==
    IF j >= Len(d) THEN rem
    ELSE LET pos == i + j
             factor == CoefMul(R, qi, d[j + 1])
         IN  DivInner_Adds(R,
                           IF pos < Len(rem) /\ factor # 0
                           THEN [rem EXCEPT ![pos + 1] = CoefAdd(R, @, factor)]
                           ELSE rem,
                           qi, d, i, j + 1)

\* The inner loop of __divmod__ (j from 1): subtract quotient_coeffs[i] *
\* divisor from the remainder.
RECURSIVE DivInner(_, _, _, _, _, _)
DivInner(R, rem, qi, d, i, j) ==
    IF j >= Len(d) THEN rem
    ELSE LET pos == i + j
             factor == CoefMul(R, qi, d[j + 1])
         IN  DivInner(R,
                      IF pos < Len(rem) /\ factor # 0
                      THEN [rem EXCEPT ![pos + 1] = CoefSub(R, @, factor)]
                      ELSE rem,
                      qi, d, i, j + 1)

\* The outer loop of __divmod__ (i over range(len(quotient_coeffs))), on the
\* lists quotient_coeffs and remainder_coeffs.
RECURSIVE DivOuter(_, _, _, _, _)
DivOuter(R, quo, rem, d, i) ==
    IF i >= Len(quo)
    THEN [raised |-> "none", quotient_coeffs |-> quo, remainder_coeffs |-> rem]
    ELSE IF rem[i + 1] = 0 THEN DivOuter(R, quo, rem, d, i + 1)
    ELSE LET qc == QuotientCoeff(R, rem[i + 1], d[1])
         IN  IF qc.raised # "none" THEN [raised |-> qc.raised]
             ELSE IF qc.value = 0
             THEN DivOuter(R, [quo EXCEPT ![i + 1] = 0], rem, d, i + 1)
             ELSE DivOuter(R, [quo EXCEPT ![i + 1] = qc.value],
                           DivInner(R, rem, qc.value, d, i, 1), d, i + 1)

\* "remainder_coeffs[len(quotient_coeffs):]" cut one place early.
RemainderTail_OffByOne(rem, quo) == SubSeq(rem, Len(quo), Len(rem))

\* "remainder_coeffs = remainder_coeffs[len(quotient_coeffs):]"
RemainderTail(rem, quo) == SubSeq(rem, Len(quo) + 1, Len(rem))

\* Polynomial.__divmod__: the exception raised ("none" when it returns), the
\* quotient and remainder returned, and the two lists as the loop left them.
PolyDivmod(R, dividend, divisor) ==
    IF divisor = <<0>> THEN [raised |-> "ZeroDivisionError"]
    ELSE IF Degree(divisor) > Degree(dividend)
    THEN [raised |-> "none", quotient |-> Polynomial(<<0>>), remainder |-> dividend,
          looped |-> FALSE]
    ELSE LET loop == DivOuter(R, Zeros(Len(dividend) - Len(divisor) + 1),
                              dividend, divisor, 0)
         IN  IF loop.raised # "none" THEN [raised |-> loop.raised]
             ELSE LET quo == PopLeadingZeros(loop.quotient_coeffs)
                      cut == RemainderTail(loop.remainder_coeffs, quo)
                      rem == PopLeadingZeros(cut)
                  IN  [raised |-> "none",
                       quotient |-> Polynomial(quo),
                       remainder |-> Polynomial(IF rem = <<>> THEN <<0>> ELSE rem),
                       looped |-> TRUE,
                       divisor_lc |-> divisor[1],
                       quotient_coeffs |-> loop.quotient_coeffs,
                       remainder_coeffs |-> loop.remainder_coeffs]

\* The loop of evaluate over reversed(self.coefficients): c = c + term * p,
\* then p = p * x.
RECURSIVE EvalLoop(_, _, _, _, _, _)
EvalLoop(R, rc, i, c, p, xv) ==
    IF i > Len(rc) THEN c
    ELSE EvalLoop(R, rc, i + 1, CoefAdd(R, c, CoefMul(R, rc[i], p)),
                  CoefMul(R, p, xv), xv)

\* Polynomial.evaluate with the running power started at x instead of 1.
Evaluate_StartAtX(R, p, xv) == EvalLoop(R, Reverse(p), 1, 0, xv, xv)

\* Polynomial.evaluate
Evaluate(R, p, xv) == EvalLoop(R, Reverse(p), 1, 0, 1, xv)

\* Polynomial.get_coefficient; coefficients[-(degree+1)] counts from the end.
GetCoefficient(p, degree) ==
    IF degree > Degree(p) THEN 0 ELSE p[Len(p) - degree]

---------------------------------------------------------------------------
(* Field operations on every pair of field elements                        *)

FieldInit ==
    /\ cache = <<>>
    /\ heap = <<>>
    /\ self \in 0..255
    /\ other \in 0..255
    /\ x = 0
    /\ ring = "GF"
    /\ ret = [op |-> "none"]
    /\ pc = "call"

\* a * b by the tables and by the reference multiply, on the same operands.
CallMul ==
    /\ pc = "call"
    /\ ret' = [op |-> "mul", table |-> GFmul(self, other),
               slow |-> GFmultiply(self, other)]
    /\ pc' = "done"
    /\ UNCHANGED <<cache, heap, self, other, x, ring>>

\* a.inverse(), then a * a.inverse() when inverse() returned.
CallInverse ==
    /\ pc = "call"
    /\ LET inv == GFinverse(self)
       IN  ret' = IF inv.raised = "none"
                  THEN [op |-> "inverse", raised |-> "none", path |-> inv.path,
                        value |-> inv.value, product |-> GFmul(self, inv.value)]
                  ELSE [op |-> "inverse", raised |-> inv.raised, path |-> inv.path]
    /\ pc' = "done"
    /\ UNCHANGED <<cache, heap, self, other, x, ring>>

FieldNext == CallMul \/ CallInverse

SpecField == FieldInit /\ [][FieldNext]_vars

\* C4: for every pair (a, b) in 0..255, the table-driven multiply returns the
\* same field element as the shift-and-XOR reference multiply.
C4_TableMulEqualsReference ==
    ret.op = "mul" => ret.table = ret.slow

C4_Witness ==
    /\ ret.op = "mul"
    /\ self = 255 /\ other = 254
    /\ ret.table = ret.slow
    /\ ret.table # 0

\* C5: for every a in 1..255, a * a.inverse() is 1 under the table-driven
\* multiply and inverse() does not enter the brute-force fallback search;
\* for a = 0, inverse() raises a division error and returns nothing.
C5_InverseIsInverse ==
    ret.op = "inverse" =>
        IF self = 0
        THEN ret.raised = "ZeroDivisionError"
        ELSE /\ ret.raised = "none"
             /\ ret.product = 1
             /\ ret.path # "fallback"
             /\ ret.path = (IF self = 255 THEN "patch255" ELSE "table")

C5_Witness ==
    /\ ret.op = "inverse"
    /\ self = 255
    /\ ret.raised = "none"
    /\ ret.path = "patch255"
    /\ ret.product = 1

---------------------------------------------------------------------------
(* The flyweight cache: constructions and field operations on instances   *)

\* Number of GF256int instances the model allocates at most.
MaxObjs == 3
\* Largest power passed to __pow__.
MaxPower == 1
\* Arguments of GF256int(...): in range, repeated, and out of range.
NewArgs == {-1, 0, 2, 255, 256}

EmptyDict == [k \in {} |-> 0]

\* GF256int.__new__ with the range test off by one (value > 256).
GFnew_WideRange(c, h, value) ==
    IF value \in DOMAIN c
    THEN [cache |-> c, heap |-> h, raised |-> "none", obj |-> c[value], path |-> "hit"]
    ELSE IF value > 256 \/ value < 0
    THEN [cache |-> c, heap |-> h, raised |-> "ValueError", obj |-> 0, path |-> "range"]
    ELSE [cache |-> [k \in DOMAIN c \cup {value} |->
                        IF k = value THEN Len(h) + 1 ELSE c[k]],
          heap |-> Append(h, value), raised |-> "none", obj |-> Len(h) + 1,
          path |-> "new"]

\* GF256int.__new__ on cache c and instances h: the cache and instances after
\* the call, the exception raised, the instance returned (0: none).
GFnew(c, h, value) ==
    IF value \in DOMAIN c
    THEN [cache |-> c, heap |-> h, raised |-> "none", obj |-> c[value], path |-> "hit"]
    ELSE IF value > 255 \/ value < 0
    THEN [cache |-> c, heap |-> h, raised |-> "ValueError", obj |-> 0, path |-> "range"]
    ELSE [cache |-> [k \in DOMAIN c \cup {value} |->
                        IF k = value THEN Len(h) + 1 ELSE c[k]],
          heap |-> Append(h, value), raised |-> "none", obj |-> Len(h) + 1,
          path |-> "new"]

CacheInit ==
    /\ cache = EmptyDict
    /\ heap = <<>>
    /\ self = 0
    /\ other = 0
    /\ x = 0
    /\ ring = "GF"
    /\ ret = [op |-> "none"]
    /\ pc = "call"

\* The outcome of an operation that ends in GF256int(value).
Returns(op, arg, value) ==
    LET r == GFnew(cache, heap, value)
    IN  [cache |-> r.cache, heap |-> r.heap,
         ret |-> [op |-> op, arg |-> arg, raised |-> r.raised, obj |-> r.obj,
                  path |-> r.path]]

\* The outcome of an operation that raised before constructing anything.
Raises(op, arg, exc) ==
    [cache |-> cache, heap |-> heap,
     ret |-> [op |-> op, arg |-> arg, raised |-> exc, obj |-> 0, path |-> "raise"]]

\* GF256int(value)
New ==
    \E value \in NewArgs :
        LET o == Returns("new", value, value)
        IN  /\ Len(o.heap) <= MaxObjs
            /\ cache' = o.cache /\ heap' = o.heap /\ ret' = o.ret
            /\ UNCHANGED <<self, other, x, ring, pc>>

\* a + b, a - b on two instances
Add ==
    \E a, b \in 1..Len(heap) :
        LET o == Returns("add", <<a, b>>, GFadd(heap[a], heap[b]))
        IN  /\ Len(o.heap) <= MaxObjs
            /\ cache' = o.cache /\ heap' = o.heap /\ ret' = o.ret
            /\ UNCHANGED <<self, other, x, ring, pc>>

\* a * b on two instances
Mul ==
    \E a, b \in 1..Len(heap) :
        LET o == Returns("mul", <<a, b>>, GFmul(heap[a], heap[b]))
        IN  /\ Len(o.heap) <= MaxObjs
            /\ cache' = o.cache /\ heap' = o.heap /\ ret' = o.ret
            /\ UNCHANGED <<self, other, x, ring, pc>>

\* a.multiply(b) on two instances
Multiply ==
    \E a, b \in 1..Len(heap) :
        LET o == Returns("multiply", <<a, b>>, GFmultiply(heap[a], heap[b]))
        IN  /\ Len(o.heap) <= MaxObjs
            /\ cache' = o.cache /\ heap' = o.heap /\ ret' = o.ret
            /\ UNCHANGED <<self, other, x, ring, pc>>

\* a ** power
Pow ==
    \E a \in 1..Len(heap), power \in 0..MaxPower :
        LET r == GFpow(heap[a], power)
            o == IF r.raised = "none" THEN Returns("pow", <<a, power>>, r.value)
                 ELSE Raises("pow", <<a, power>>, r.raised)
        IN  /\ Len(o.heap) <= MaxObjs
            /\ cache' = o.cache /\ heap' = o.heap /\ ret' = o.ret
            /\ UNCHANGED <<self, other, x, ring, pc>>

\* a.inverse()
Inverse ==
    \E a \in 1..Len(heap) :
        LET r == GFinverse(heap[a])
            o == IF r.raised = "none" THEN Returns("inverse", a, r.value)
                 ELSE Raises("inverse", a, r.raised)
        IN  /\ Len(o.heap) <= MaxObjs
            /\ cache' = o.cache /\ heap' = o.heap /\ ret' = o.ret
            /\ UNCHANGED <<self, other, x, ring, pc>>

CacheNext == New \/ Add \/ Mul \/ Multiply \/ Pow \/ Inverse

SpecCache == CacheInit /\ [][CacheNext]_vars

C8_CacheWellFormed ==
    /\ Cardinality(DOMAIN cache) <= 256
    /\ \A k \in DOMAIN cache :
          /\ k \in 0..255
          /\ cache[k] \in 1..Len(heap)
          /\ heap[cache[k]] = k

C8_ConstructionStep ==
    ret'.op = "new" =>
        /\ ret'.arg \in DOMAIN cache =>
              /\ ret'.raised = "none"
              /\ ret'.obj = cache[ret'.arg]
              /\ UNCHANGED <<cache, heap>>
        /\ (ret'.arg < 0 \/ ret'.arg > 255) =>
              /\ ret'.raised = "ValueError"
              /\ UNCHANGED <<cache, heap>>
        /\ ret'.raised = "none" => heap'[ret'.obj] = ret'.arg

\* C8: after any sequence of constructions and field operations the cache
\* holds at most 256 entries, every key k is in 0..255 and maps to the
\* instance of value k; constructing a cached value returns the cached
\* instance; a construction out of 0..255 raises the range error and leaves
\* the cache unchanged.
C8_FlyweightCache ==
    []C8_CacheWellFormed /\ [][C8_ConstructionStep]_vars

C8_Witness ==
    /\ ret.op = "new"
    /\ ret.path = "hit"
    /\ Len(heap) = MaxObjs
    /\ ret.obj = 1

---------------------------------------------------------------------------
(* Polynomial division over both coefficient rings                         *)

\* Longest coefficient sequence handed to the dense constructor.
MaxLen == 3
\* Coefficients of the operands: field elements, plain integers.
GFCoefs == {0, 1, 2, 255}
IntCoefs == {-2, -1, 0, 1, 3}
Coefs(R) == IF R = "GF" THEN GFCoefs ELSE IntCoefs

SeqsUpTo(S, n) == UNION {[1..k -> S] : k \in 0..n}

\* The polynomials the dense constructor builds from sequences over S.
DensePolys(S, n) == {Polynomial(c) : c \in SeqsUpTo(S, n)}

DivInit ==
    /\ cache = EmptyDict
    /\ heap = <<>>
    /\ ring \in {"GF", "Int"}
    /\ self \in DensePolys(Coefs(ring), MaxLen)
    /\ other \in DensePolys(Coefs(ring), MaxLen)
    /\ x = 0
    /\ ret = [op |-> "none"]
    /\ pc = "call"

\* divmod(self, other); p // d and p % d are its two results.
Divmod ==
    /\ pc = "call"
    /\ ret' = [op |-> "divmod", res |-> PolyDivmod(ring, self, other)]
    /\ pc' = "done"
    /\ UNCHANGED <<cache, heap, self, other, x, ring>>

DivNext == Divmod

SpecDiv == DivInit /\ [][DivNext]_vars

Returned == ret.op = "divmod" /\ ret.res.raised = "none"

\* C1: over GF256int coefficients, for every dividend p and non-zero divisor
\* d built by dense construction, divmod returns q and r with d * q + r == p.
C1_DivisionIdentityGF ==
    (ret.op = "divmod" /\ ring = "GF" /\ other # <<0>>) =>
        /\ ret.res.raised = "none"
        /\ PolyEq(PolyAdd("GF", PolyMul("GF", other, ret.res.quotient),
                          ret.res.remainder),
                  self)

C1_Witness ==
    /\ Returned /\ ring = "GF"
    /\ ret.res.looped
    /\ other[1] = 255 /\ Len(other) = 3
    /\ Len(self) = 3
    /\ ret.res.remainder # <<0>>
    /\ PolyEq(PolyAdd("GF", PolyMul("GF", other, ret.res.quotient),
                      ret.res.remainder),
              self)

IdentityInt ==
    PolyEq(PolyAdd("Int", PolyMul("Int", ret.res.quotient, other),
                   ret.res.remainder),
           self)

\* C2 as stated: over plain integers, for every dividend p and non-zero
\* divisor d, (p // d) * d + (p % d) == p.
C2_DivisionIdentityInt_AllDivisors ==
    (ret.op = "divmod" /\ ring = "Int" /\ other # <<0>>) =>
        /\ ret.res.raised = "none"
        /\ IdentityInt

\* Every quotient step divided exactly: remainder_coeffs[i] is a multiple of
\* the divisor's leading coefficient.
ExactSteps ==
    ret.res.looped =>
        \A i \in 1..Len(ret.res.quotient_coeffs) :
            Abs(ret.res.remainder_coeffs[i]) % Abs(ret.res.divisor_lc) = 0

\* C2, as the code has it: over plain integers, for every dividend p and non-zero
\* divisor d, divmod returns, and (p // d) * d + (p % d) == p whenever every
\* quotient step divides exactly (as it does when the leading coefficient of
\* d is 1 or -1); (1, 0, 1) divided by (1, 1) gives (1, -1) and (2,).
C2_DivisionIdentityInt ==
    (ret.op = "divmod" /\ ring = "Int" /\ other # <<0>>) =>
        /\ ret.res.raised = "none"
        /\ ExactSteps => IdentityInt
        /\ other[1] \in {1, -1} => ExactSteps
        /\ (self = <<1, 0, 1>> /\ other = <<1, 1>>) =>
              /\ ret.res.quotient = <<1, -1>>
              /\ ret.res.remainder = <<2>>

C2_Witness ==
    /\ Returned /\ ring = "Int"
    /\ self = <<1, 0, 1>> /\ other = <<1, 1>>
    /\ ret.res.quotient = <<1, -1>>
    /\ ret.res.remainder = <<2>>
    /\ IdentityInt

\* C3 as stated: over GF256int coefficients the remainder's degree is below
\* the divisor's, constant divisors included.
C3_RemainderDegree_AllDivisors ==
    (Returned /\ ring = "GF") =>
        Degree(ret.res.remainder) < Degree(other)

\* C3, as the code has it: over GF256int coefficients the remainder's degree is below
\* the divisor's when the divisor has degree at least 1; for a non-zero
\* constant divisor the remainder is (0,), whose degree is 0.
C3_RemainderDegree ==
    (Returned /\ ring = "GF") =>
        IF Degree(other) >= 1
        THEN Degree(ret.res.remainder) < Degree(other)
        ELSE ret.res.remainder = <<0>>

C3_Witness ==
    /\ Returned /\ ring = "GF"
    /\ ret.res.looped
    /\ Degree(other) = 2
    /\ Degree(ret.res.remainder) = 1

IsFloorQuotient(q, a, b) ==
    LET r == a - q * b
    IN  IF b > 0 THEN 0 <= r /\ r < b ELSE b < r /\ r <= 0

---------------------------------------------------------------------------
(* Evaluation of products and sums over GF(256)                            *)

\* Longest coefficient sequence of the evaluated polynomials.
MaxEvalLen == 2
EvalCoefs == {0, 2, 255}

EvalInit ==
    /\ cache = EmptyDict
    /\ heap = <<>>
    /\ ring = "GF"
    /\ self \in DensePolys(EvalCoefs, MaxEvalLen)
    /\ other \in DensePolys(EvalCoefs, MaxEvalLen)
    /\ x \in 0..255
    /\ ret = [op |-> "none"]
    /\ pc = "call"

\* (p * q).evaluate(x), p.evaluate(x) and q.evaluate(x)
EvaluateProduct ==
    /\ pc = "call"
    /\ ret' = [op |-> "evaluate_product",
               whole |-> Evaluate(ring, PolyMul(ring, self, other), x),
               left |-> Evaluate(ring, self, x),
               right |-> Evaluate(ring, other, x)]
    /\ pc' = "done"
    /\ UNCHANGED <<cache, heap, self, other, x, ring>>

\* (p + q).evaluate(x), p.evaluate(x) and q.evaluate(x)
EvaluateSum ==
    /\ pc = "call"
    /\ ret' = [op |-> "evaluate_sum",
               whole |-> Evaluate(ring, PolyAdd(ring, self, other), x),
               left |-> Evaluate(ring, self, x),
               right |-> Evaluate(ring, other, x)]
    /\ pc' = "done"
    /\ UNCHANGED <<cache, heap, self, other, x, ring>>

EvalNext == EvaluateProduct \/ EvaluateSum

SpecEval == EvalInit /\ [][EvalNext]_vars

\* C10: for polynomials p, q over GF(256) and every field element x,
\* (p * q).evaluate(x) == p.evaluate(x) * q.evaluate(x) and
\* (p + q).evaluate(x) == p.evaluate(x) + q.evaluate(x).
C10_EvaluateHomomorphism ==
    /\ ret.op = "evaluate_product" => ret.whole = GFmul(ret.left, ret.right)
    /\ ret.op = "evaluate_sum" => ret.whole = GFadd(ret.left, ret.right)

C10_Witness ==
    /\ ret.op = "evaluate_product"
    /\ self = <<255, 2>> /\ other = <<2, 255>> /\ x = 83
    /\ ret.left # 0 /\ ret.right # 0
    /\ ret.whole = GFmul(ret.left, ret.right)

---------------------------------------------------------------------------
(* Sparse construction and get_coefficient                                 *)

\* Most keywords of one sparse construction.
MaxTerms == 2
\* Powers named by the keywords: one digit and two digits.
SparsePowers == {0, 1, 2, 9, 10, 11}
SparseCoefs == {0, 1, 2}
\* Degrees asked of get_coefficient.
AskedDegrees == 0..12

\* Keyword arguments: up to n (keyword, coefficient) pairs, no keyword twice.
KwArgs(powers, coefs, n) ==
    {kw \in SeqsUpTo([key : {Digits(p) : p \in powers}, coeff : coefs], n) :
        /\ kw # <<>>
        /\ \A i, j \in 1..Len(kw) : i # j => kw[i].key # kw[j].key}

SparseInit ==
    /\ cache = EmptyDict
    /\ heap = <<>>
    /\ ring = "Int"
    /\ self = <<>>
    /\ other = <<>>
    /\ x = 0
    /\ ret = [op |-> "none"]
    /\ pc = "new"

\* Polynomial(x<power>=coeff, ...); other keeps the keyword arguments.
ConstructSparse ==
    /\ pc = "new"
    /\ \E kw \in KwArgs(SparsePowers, SparseCoefs, MaxTerms) :
          LET r == PolynomialInit(<<>>, kw)
          IN  /\ other' = kw
              /\ ret' = [op |-> "init", raised |-> r.raised]
              /\ self' = IF r.raised = "none" THEN r.coefficients ELSE self
              /\ pc' = IF r.raised = "none" THEN "built" ELSE "failed"
    /\ UNCHANGED <<cache, heap, x, ring>>

\* self.get_coefficient(degree)
CallGetCoefficient ==
    /\ pc = "built"
    /\ \E degree \in AskedDegrees :
          ret' = [op |-> "get_coefficient", degree |-> degree,
                  value |-> GetCoefficient(self, degree)]
    /\ UNCHANGED <<cache, heap, self, other, x, ring, pc>>

SparseNext == ConstructSparse \/ CallGetCoefficient

SpecSparse == SparseInit /\ [][SparseNext]_vars

\* The mapping the keyword arguments denote.
PowersOf(kw) == {ParseInt(kw[i].key) : i \in 1..Len(kw)}
HighestPower(kw) == CHOOSE m \in PowersOf(kw) : \A n \in PowersOf(kw) : n <= m
MappedCoeff(kw, k) ==
    IF k \in PowersOf(kw)
    THEN LET i == CHOOSE i \in 1..Len(kw) : ParseInt(kw[i].key) = k
         IN  kw[i].coeff
    ELSE 0

\* C7: for every non-empty mapping from powers to coefficients, sparse
\* construction returns a coefficient sequence of length (highest power + 1)
\* in which get_coefficient(k) is the mapped coefficient of every power k of
\* the mapping and 0 for every other power.
C7_SparseConstruction ==
    /\ pc # "new" =>
          /\ pc = "built"
          /\ Len(self) = HighestPower(other) + 1
    /\ ret.op = "get_coefficient" =>
          ret.value = MappedCoeff(other, ret.degree)

---------------------------------------------------------------------------
(* Constructions followed by arithmetic: the normalization invariant       *)

\* Longest coefficients tuple the operations build.
MaxOpsLen == 3
OpsCoefs == {0, 1}

OpsInit ==
    /\ cache = EmptyDict
    /\ heap = <<>>
    /\ ring = "GF"
    /\ self = <<0>>
    /\ other = <<0>>
    /\ x = 0
    /\ ret = [op |-> "Polynomial()", raised |-> "none"]
    /\ pc = "built"

\* Each construction and operation below leaves its result in self and moves
\* the polynomial that was there to other.

\* Polynomial(coefficients)
NewDense ==
    \E c \in SeqsUpTo(OpsCoefs, MaxOpsLen) :
        /\ c # <<>>
        /\ self' = PolynomialInit(c, <<>>).coefficients
        /\ other' = self
        /\ ret' = [op |-> "dense", raised |-> "none"]
        /\ UNCHANGED <<cache, heap, x, ring, pc>>

\* Polynomial(x<power>=coeff, ...)
NewSparse ==
    \E kw \in KwArgs(0..(MaxOpsLen - 1), OpsCoefs, MaxTerms) :
        LET r == PolynomialInit(<<>>, kw)
        IN  /\ r.raised = "none"
            /\ self' = r.coefficients
            /\ other' = self
            /\ ret' = [op |-> "sparse", raised |-> "none"]
            /\ UNCHANGED <<cache, heap, x, ring, pc>>

\* Polynomial()
NewEmpty ==
    /\ self' = PolynomialInit(<<>>, <<>>).coefficients
    /\ other' = self
    /\ ret' = [op |-> "empty", raised |-> "none"]
    /\ UNCHANGED <<cache, heap, x, ring, pc>>

\* self + other
OpAdd ==
    /\ self' = PolyAdd(ring, self, other)
    /\ other' = self
    /\ ret' = [op |-> "add", raised |-> "none"]
    /\ UNCHANGED <<cache, heap, x, ring, pc>>

\* self - other
OpSub ==
    /\ self' = PolySub(ring, self, other)
    /\ other' = self
    /\ ret' = [op |-> "sub", raised |-> "none"]
    /\ UNCHANGED <<cache, heap, x, ring, pc>>

\* -self
OpNeg ==
    /\ self' = PolyNeg(ring, self)
    /\ other' = self
    /\ ret' = [op |-> "neg", raised |-> "none"]
    /\ UNCHANGED <<cache, heap, x, ring, pc>>

\* self * other, while the product fits the bound
OpMul ==
    /\ Len(PolyMul(ring, self, other)) <= MaxOpsLen
    /\ self' = PolyMul(ring, self, other)
    /\ other' = self
    /\ ret' = [op |-> "mul", raised |-> "none"]
    /\ UNCHANGED <<cache, heap, x, ring, pc>>

\* q, r = divmod(self, other); a raise leaves both operands as they are.
OpDivmod ==
    LET r == PolyDivmod(ring, self, other)
    IN  IF r.raised = "none"
        THEN /\ self' = r.quotient
             /\ other' = r.remainder
             /\ ret' = [op |-> "divmod", raised |-> "none"]
             /\ UNCHANGED <<cache, heap, x, ring, pc>>
        ELSE /\ ret' = [op |-> "divmod", raised |-> r.raised]
             /\ UNCHANGED <<cache, heap, self, other, x, ring, pc>>

OpsNext ==
    \/ NewDense \/ NewSparse \/ NewEmpty
    \/ OpAdd \/ OpSub \/ OpNeg \/ OpMul \/ OpDivmod

SpecOps == OpsInit /\ [][OpsNext]_vars

Normalized(p) == p[1] # 0 \/ p = <<0>>

\* The polynomial a coefficients tuple denotes: the tuple without its
\* leading zeros.
Denoted(p) == IF Expunge(p) = <<>> THEN <<0>> ELSE Expunge(p)

\* C6: every polynomial reached by any constructor form followed by any
\* sequence of +, -, negation, * and divmod has no leading zero coefficient
\* unless it is exactly (0,), so two polynomials that denote the same
\* polynomial compare equal.
C6_NormalizationInvariant ==
    /\ Normalized(self)
    /\ Normalized(other)
    /\ Denoted(self) = Denoted(other) => PolyEq(self, other)

============================================================================
